---- MODULE Spec2Model ----
(***************************************************************************)
(* Model of the QuickSight subscription lifecycle handler and of the       *)
(* backoff retrier it makes every remote call through.                     *)
(*                                                                         *)
(* One invocation of the handler is a walk of pc through the retried       *)
(* remote calls of the handler body.  One attempt of the retrier (the call *)
(* of fn, the classification of its error, the log line, the sleep and the *)
(* increment of the loop counter) is one step; a step that leaves the      *)
(* retrier carries on in the handler up to the next remote call or the     *)
(* handler's return or throw.  The remote side is not modelled: every      *)
(* response and every error of a remote call is an input of the step.      *)
(***************************************************************************)
EXTENDS Integers, Sequences, FiniteSets, TLC

\* ------------------------------------------------------------------ bounds
\* largest configured maximum of a retrier call made on its own
MaxAttemptsBound == 6

\* --------------------------------------------------------- program constants
DefaultMaxRetries == 10
DefaultBaseDelay == 2000
DelayCap == 30000
ThrottlingPenalty == 5000
DescribeMaxRetries == 5
ListNamespacesMaxRetries == 3

\* ------------------------------------------------------------------- inputs
None == "none"

Accounts == {"111111111111", "222222222222"}

\* the value of process.env.AWS_REGION in the invocation
AWS_REGION == "us-east-1"

\* CapacityRegion of the first namespace; None when there is none
CapacityRegions == {None, "us-east-1", "eu-west-1"}

\* AccountSubscriptionStatus of the describe response; None when absent
Statuses == {"ACCOUNT_CREATED", "UNSUBSCRIBE_FAILED", "UNSUBSCRIBE_IN_PROGRESS", None}

\* base delays a retrier call made on its own is configured with
BaseDelays == {500, 2000}

\* errors a remote call raises: name and the SDK's $retryable mark
NoError == [name |-> None, retryable |-> FALSE]

Errors ==
    { [name |-> "ThrottlingException", retryable |-> TRUE],
      [name |-> "InternalFailure", retryable |-> FALSE],
      [name |-> "ResourceNotFoundException", retryable |-> FALSE],
      [name |-> "AccessDeniedException", retryable |-> FALSE],
      [name |-> "ServiceUnavailableException", retryable |-> TRUE] }

\* the Error thrown by the handler itself on a region mismatch
RegionError == [name |-> "Error", retryable |-> FALSE]

\* events: Create carries no previous identifier, Update always does
Events ==
    { [RequestType |-> "Create", AwsAccountId |-> a, PhysicalResourceId |-> None] : a \in Accounts }
    \cup { [RequestType |-> "Update", AwsAccountId |-> a, PhysicalResourceId |-> "previous-id"] : a \in Accounts }
    \cup { [RequestType |-> "Delete", AwsAccountId |-> a, PhysicalResourceId |-> p] :
             a \in Accounts, p \in {None, "previous-id"} }

NoEvent == [RequestType |-> None, AwsAccountId |-> None, PhysicalResourceId |-> None]

\* remote operations; "fn" is the operation of a retrier call made on its own
Ops == {"describe", "listNamespaces", "updateSettings", "delete", "create", "fn"}

MutatingOps == {"updateSettings", "delete", "create"}

NoLine == [attempt |-> 0, code |-> None, delay |-> 0]

NoResult == [kind |-> None, PhysicalResourceId |-> None, Status |-> None, err |-> NoError]

VARIABLES
    pc,          \* position of the handler: the retried call it is in
    event,       \* the event of the invocation
    attempt,     \* withRetry: loop counter
    maxRetries,  \* withRetry: parameter
    baseDelay,   \* withRetry: parameter
    lastError,   \* withRetry: lastError
    calls,       \* invocations of fn in the current retrier call
    sleeps,      \* sleeps of the current retrier call
    totalDelay,  \* milliseconds slept in the current retrier call
    lastLine,    \* the last log line of the current retrier call
    prevLine,    \* the log line before it in the same retrier call
    status,      \* handler: status read from the describe response
    capacityRegion, \* handler: region read from the namespace response
    caught,      \* handler: the error that entered the catch block
    thrownAt,    \* handler: the call the caught error came out of
    issued,      \* retried calls of this invocation that sent a request, per operation
    succeeded,   \* retried calls of this invocation that returned, per operation
    result,      \* outcome of the invocation
    returned     \* per account: identifiers returned so far, with the request type

vars == << pc, event, attempt, maxRetries, baseDelay, lastError, calls, sleeps, totalDelay,
           lastLine, prevLine, status, capacityRegion, caught, thrownAt,
           issued, succeeded, result, returned >>

retryVars == << attempt, maxRetries, baseDelay, lastError, calls, sleeps, totalDelay,
               lastLine, prevLine >>

\* -------------------------------------------- the AD automation handler
\* largest number of instance launches and of key pair creations followed
MaxLaunches == 2
MaxKeys == 2
\* largest number of images in the answer of the image lookup
MaxImages == 2

\* polls of one waitForCommand call
PollBudget == 90

\* the fixed delays of the handler, in milliseconds, and the timeout of the
\* function, in minutes
SettleDelay == 120000
SsmDelay == 120000
CommandInitialDelay == 30000
PollInterval == 10000
FunctionTimeoutMinutes == 15

VARIABLES
    cpc,         \* position of the AD automation handler: the remote call it is at
    cevent,      \* its event
    keyName,     \* getOrCreateKeyPair: the key name read or made
    amiId,       \* launchEC2Instance: the image chosen
    images,      \* launchEC2Instance: the images the lookup answered with
    imagesAnswer, \* launchEC2Instance: whether the image lookup answered with images
    instanceId,  \* handler: the instance launched by this invocation
    useDoc,      \* joinDomain: the document the join command uses
    polls,       \* waitForCommand: loop counter i
    lastPoll,    \* waitForCommand: what the last status query of the call in progress gave
    clog,        \* remote calls and fixed delays of this invocation, in order
    joinOutcome, \* how waitForCommand ended for the join command, and its value
    runOutcome,  \* how waitForCommand ended for the script command, and its value
    cresult,     \* outcome of the invocation
    secretKey,   \* remote: KeyPairName of the credential record
    keyPairs,    \* remote: key pairs that exist
    now,         \* Date.now(): number of clock readings taken for key names
    instances,   \* remote: the instances launched so far, in order
    customDoc    \* remote: whether the custom join document exists

cvars == << cpc, cevent, keyName, amiId, images, imagesAnswer, instanceId, useDoc, polls, lastPoll, clog,
            joinOutcome, runOutcome, cresult, secretKey, keyPairs, now,
            instances, customDoc >>

\* a second invocation of the AD automation handler, not running at the moment
VARIABLES
    parked       \* the handler's own variables of the invocation that is waiting

\* ------------------------------------------------- the health check function
\* largest number of datapoints of the metric followed
MaxDatapoints == 3

VARIABLES
    hpc,         \* position of the health check: the remote call it is at
    hstatus,     \* status read from the describe response
    hcaught,     \* the exception the except block was entered with
    hpublished,  \* datapoints this invocation has published
    houtcome,    \* how the invocation ended: return, or raise with the exception
    datapoints   \* remote: the SubscriptionHealth datapoints, in order

hvars == << hpc, hstatus, hcaught, hpublished, houtcome, datapoints >>

\* ------------------------------------------------------ the stacks of the app
VARIABLES
    dpc,         \* the stack a deployment of the app is at
    dconfig,     \* stage, projectPrefix and enableQuickSight of the deployment
    params,      \* remote: names of the SSM parameters that exist
    dmissing     \* names a stack of the deployment read and did not find

dvars == << dpc, dconfig, params, dmissing >>

xvars == << parked, hvars, dvars >>

allvars == << vars, cvars, xvars >>

\* ---------------------------------------------------------------- helpers
Min(a, b) == IF a < b THEN a ELSE b

\* the operation behind each position of the handler
OpOf(p) ==
    CASE p = "createInCatch" -> "create"
      [] p = "standalone" -> "fn"
      [] OTHER -> p

\* variant: the create call of the handler body is outside the try block
TryBlockWithoutCreate == {"describe", "listNamespaces", "updateSettings", "delete"}

\* positions inside the handler's try block
TryBlock == {"describe", "listNamespaces", "updateSettings", "delete", "create"}

\* what a successful remote call can answer
Responses(p) ==
    CASE p = "describe" -> Statuses
      [] p = "listNamespaces" -> CapacityRegions
      [] OTHER -> {"ok"}

\* variant: the previous identifier is reused when the event carries one
PhysicalIdReusingPrevious(account) ==
    IF event.PhysicalResourceId # None
    THEN event.PhysicalResourceId
    ELSE "quicksight-subscription-" \o account

PhysicalId(account) == "quicksight-subscription-" \o account

\* variant: Delete answers with the derived identifier
DeleteResponseIdDerived(ev) == "quicksight-subscription-" \o ev.AwsAccountId

DeleteResponseId(ev) ==
    IF ev.PhysicalResourceId # None THEN ev.PhysicalResourceId ELSE "quicksight-subscription"

\* ------------------------------------------------------------- withRetry
\* variant: the loop bound is inclusive
LoopCondInclusive(a, n) == a <= n

LoopCond(a, n) == a < n

\* variant: only an error without a name is fatal
IsFatalUnnamedOnly(e) == ~e.retryable /\ e.name = ""

IsFatal(e) ==
    ~e.retryable /\ e.name # "ThrottlingException" /\ e.name # "InternalFailure"

\* variant: the exponential delay wraps at the cap instead of stopping there
BackoffWrapping(base, a) == (base * 2 ^ a) % DelayCap

Backoff(base, a) == Min(base * 2 ^ a, DelayCap)

\* variant: the penalty is added after every error kind
DelayPenaltyAlways(base, a, code) == Backoff(base, a) + ThrottlingPenalty

Delay(base, a, code) ==
    Backoff(base, a) + (IF code = "ThrottlingException" THEN ThrottlingPenalty ELSE 0)

\* variant: the comparison of the regions is inverted
RegionMismatchInverted(r) == r # None /\ r = AWS_REGION

RegionMismatch(r) == r # None /\ r # AWS_REGION

\* ------------------------------------------------ leaving and entering calls
\* enter withRetry(fn, name, n, base) for the call at position p
StartRetry(p, n, base) ==
    /\ pc' = p
    /\ attempt' = 0
    /\ maxRetries' = n
    /\ baseDelay' = base
    /\ lastError' = NoError
    /\ calls' = 0
    /\ sleeps' = 0
    /\ totalDelay' = 0
    /\ lastLine' = NoLine
    /\ prevLine' = NoLine

ReturnOf(id, st) == [kind |-> "return", PhysicalResourceId |-> id, Status |-> st, err |-> NoError]

ThrowOf(e) == [kind |-> "throw", PhysicalResourceId |-> None, Status |-> None, err |-> e]

\* the invocation ends with outcome res; c and e are the retrier's count of
\* calls and its lastError when it was left
Finish(res, c, e) ==
    /\ pc' = "done"
    /\ result' = res
    /\ returned' = IF res.kind = "return" /\ event.RequestType \in {"Create", "Update"}
                   THEN [returned EXCEPT ![event.AwsAccountId] =
                             @ \cup {<< res.PhysicalResourceId, event.RequestType >>}]
                   ELSE returned
    /\ calls' = c
    /\ lastError' = e
    /\ UNCHANGED << attempt, maxRetries, baseDelay, sleeps, totalDelay, lastLine, prevLine >>

\* createSubscription(props): one retried create call with the defaults
createSubscription(p) == StartRetry(p, DefaultMaxRetries, DefaultBaseDelay)

\* variant: the catch block has no branch for ResourceNotFoundException
CatchWithoutNotFound(err, c, e) ==
    /\ caught' = err
    /\ thrownAt' = pc
    /\ IF err.name \in {"InternalFailure", "ThrottlingException"}
       THEN Finish(ReturnOf(PhysicalId(event.AwsAccountId), "PartialFailure-" \o err.name), c, e)
       ELSE Finish(ThrowOf(err), c, e)

\* the handler's catch block, entered with err
Catch(err, c, e) ==
    /\ caught' = err
    /\ thrownAt' = pc
    /\ IF err.name = "ResourceNotFoundException"
       THEN createSubscription("createInCatch") /\ UNCHANGED << result, returned >>
       ELSE IF err.name \in {"InternalFailure", "ThrottlingException"}
       THEN Finish(ReturnOf(PhysicalId(event.AwsAccountId), "PartialFailure-" \o err.name), c, e)
       ELSE Finish(ThrowOf(err), c, e)

\* an error leaves the retrier: into the catch block when the call is inside
\* the try block, to the caller otherwise
Raise(err, c, e) ==
    IF pc \in TryBlock
    THEN Catch(err, c, e)
    ELSE Finish(ThrowOf(err), c, e) /\ UNCHANGED << caught, thrownAt >>

\* the call at position pc answered v: the handler runs on to its next call
OnSuccess(v, c) ==
    CASE pc = "describe" ->
            /\ status' = v
            /\ IF v = "ACCOUNT_CREATED"
               THEN StartRetry("listNamespaces", ListNamespacesMaxRetries, DefaultBaseDelay)
               ELSE IF v = "UNSUBSCRIBE_FAILED"
               THEN StartRetry("updateSettings", DefaultMaxRetries, DefaultBaseDelay)
               ELSE createSubscription("create")
            /\ UNCHANGED << capacityRegion, caught, thrownAt, result, returned >>
      [] pc = "listNamespaces" ->
            /\ capacityRegion' = v
            /\ IF RegionMismatch(v)
               THEN Catch(RegionError, c, lastError)
               ELSE /\ Finish(ReturnOf(PhysicalId(event.AwsAccountId), "Existing"), c, lastError)
                    /\ UNCHANGED << caught, thrownAt >>
            /\ UNCHANGED status
      [] pc = "updateSettings" ->
            /\ StartRetry("delete", DefaultMaxRetries, DefaultBaseDelay)
            /\ UNCHANGED << status, capacityRegion, caught, thrownAt, result, returned >>
      [] pc = "delete" ->
            /\ createSubscription("create")
            /\ UNCHANGED << status, capacityRegion, caught, thrownAt, result, returned >>
      [] pc \in {"create", "createInCatch"} ->
            /\ Finish(ReturnOf(PhysicalId(event.AwsAccountId), "Created"), c, lastError)
            /\ UNCHANGED << status, capacityRegion, caught, thrownAt >>
      [] OTHER ->
            /\ Finish(ReturnOf(None, v), c, lastError)
            /\ UNCHANGED << status, capacityRegion, caught, thrownAt >>

InCall == pc \notin {"idle", "done"}

\* the current retried call sends a request: it counts once, with its first
\* request (the requests of one retried call are counted by calls)
Sent(iss) == IF calls = 0 THEN [iss EXCEPT ![OpOf(pc)] = @ + 1] ELSE iss

\* ------------------------------------------------------------------ actions
\* fn() resolves: withRetry returns its value
withRetryReturn ==
    /\ InCall
    /\ LoopCond(attempt, maxRetries)
    /\ \E v \in Responses(pc) :
          /\ issued' = Sent(issued)
          /\ succeeded' = [succeeded EXCEPT ![OpOf(pc)] = @ + 1]
          /\ OnSuccess(v, calls + 1)
    /\ UNCHANGED event
    /\ UNCHANGED << cvars, xvars >>

\* variant: lastError keeps the first error observed
withRetryCatchKeepingFirst ==
    /\ InCall
    /\ LoopCond(attempt, maxRetries)
    /\ \E e \in Errors :
          /\ issued' = Sent(issued)
          /\ IF IsFatal(e)
             THEN Raise(e, calls + 1, e)
             ELSE /\ lastError' = IF lastError = NoError THEN e ELSE lastError
                  /\ calls' = calls + 1
                  /\ sleeps' = sleeps + 1
                  /\ totalDelay' = totalDelay + Delay(baseDelay, attempt, e.name)
                  /\ prevLine' = lastLine
                  /\ lastLine' = [attempt |-> attempt + 1, code |-> e.name,
                                  delay |-> Delay(baseDelay, attempt, e.name)]
                  /\ attempt' = attempt + 1
                  /\ UNCHANGED << pc, maxRetries, baseDelay, caught, thrownAt, result, returned >>
    /\ UNCHANGED << event, succeeded, status, capacityRegion >>
    /\ UNCHANGED << cvars, xvars >>

\* fn() rejects: a fatal error is thrown on, after any other error the
\* retrier logs, sleeps and goes round the loop
withRetryCatch ==
    /\ InCall
    /\ LoopCond(attempt, maxRetries)
    /\ \E e \in Errors :
          /\ issued' = Sent(issued)
          /\ IF IsFatal(e)
             THEN Raise(e, calls + 1, e)
             ELSE /\ lastError' = e
                  /\ calls' = calls + 1
                  /\ sleeps' = sleeps + 1
                  /\ totalDelay' = totalDelay + Delay(baseDelay, attempt, e.name)
                  /\ prevLine' = lastLine
                  /\ lastLine' = [attempt |-> attempt + 1, code |-> e.name,
                                  delay |-> Delay(baseDelay, attempt, e.name)]
                  /\ attempt' = attempt + 1
                  /\ UNCHANGED << pc, maxRetries, baseDelay, caught, thrownAt, result, returned >>
    /\ UNCHANGED << event, succeeded, status, capacityRegion >>
    /\ UNCHANGED << cvars, xvars >>

\* the loop ends: withRetry throws lastError
withRetryExhausted ==
    /\ InCall
    /\ ~LoopCond(attempt, maxRetries)
    /\ Raise(lastError, calls, lastError)
    /\ UNCHANGED << event, issued, succeeded, status, capacityRegion >>
    /\ UNCHANGED << cvars, xvars >>

\* the handler is invoked with ev and runs up to its first remote call
handler(ev) ==
    /\ pc \in {"idle", "done"}
    /\ event' = ev
    /\ issued' = [o \in Ops |-> 0]
    /\ succeeded' = [o \in Ops |-> 0]
    /\ status' = "unread"
    /\ capacityRegion' = "unread"
    /\ caught' = NoError
    /\ thrownAt' = None
    /\ IF ev.RequestType = "Delete"
       THEN /\ pc' = "done"
            /\ result' = ReturnOf(DeleteResponseId(ev), None)
            /\ attempt' = 0
            /\ maxRetries' = 0
            /\ baseDelay' = 0
            /\ lastError' = NoError
            /\ calls' = 0
            /\ sleeps' = 0
            /\ totalDelay' = 0
            /\ lastLine' = NoLine
            /\ prevLine' = NoLine
       ELSE /\ StartRetry("describe", DescribeMaxRetries, DefaultBaseDelay)
            /\ result' = NoResult
    /\ UNCHANGED returned
    /\ UNCHANGED << cvars, xvars >>

Invoke == \E ev \in Events : handler(ev)

\* =========================================================================
\* The AD automation handler (lambda/ad-automation).  Each remote call of an
\* invocation is one step, with its answer or its error as the step's input;
\* the remote side keeps the credential record, the key pairs, the instances
\* and the custom document between invocations.
\* =========================================================================
InstanceIdOf(k) == "i-" \o ToString(k)

KeyNameOf(t) == "ad-automation-key-" \o ToString(t)

\* KeyPairName of the record the stack creates the secret with
InitialKeyName == "AdAutomation-KeyPair"

BuiltinDoc == "AWS-JoinDirectoryServiceDomain"

CustomDoc == "DraupnirMAD-JoinDirectoryServiceDomain"

\* the error of a failed remote call, and the Error of launchEC2Instance
RemoteError == [name |-> "RemoteError", retryable |-> FALSE]

\* the error of CreateDocument for a name that is taken
DocumentAlreadyExists == [name |-> "DocumentAlreadyExists", retryable |-> FALSE]

NoAmiError == [name |-> "Error: No Windows AMI found", retryable |-> FALSE]

\* events of the AD automation handler
PreviousIds == {None, "deleted"} \cup { InstanceIdOf(k) : k \in 1 .. MaxLaunches }

ComputeEvents ==
    { [RequestType |-> "Create", PhysicalResourceId |-> None],
      [RequestType |-> "Update", PhysicalResourceId |-> InstanceIdOf(1)] }
    \cup { [RequestType |-> "Delete", PhysicalResourceId |-> p] : p \in PreviousIds }

NoComputeEvent == [RequestType |-> None, PhysicalResourceId |-> None]

\* images the lookup can answer with; CreationDate as a number
Images ==
    { [ImageId |-> "ami-a", CreationDate |-> 1],
      [ImageId |-> "ami-b", CreationDate |-> 2],
      [ImageId |-> "ami-c", CreationDate |-> 2] }

ImageLists == UNION { [1 .. n -> Images] : n \in 0 .. MaxImages }

\* statuses of GetCommandInvocation
CommandStatuses == {"InProgress", "Success", "Failed", "Cancelled"}

\* variant: only Success ends the loop
TerminalStatusesSuccessOnly == {"Success"}

TerminalStatuses == {"Success", "Failed", "Cancelled"}

\* command identifiers of a SendCommand answer; "" when it carries none
CommandIds == {"cmd", ""}

NoOutcome == [how |-> None, value |-> None]

NoComputeResult == [kind |-> None, PhysicalResourceId |-> None, InstanceId |-> None, err |-> NoError]

\* variant: any identifier that is present counts as an instance reference
IsInstanceRefAnyId(id) == id # None

\* instanceId?.startsWith('i-')
IsInstanceRef(id) == id # None /\ Len(id) >= 2 /\ SubSeq(id, 1, 2) = "i-"

\* images.sort((a, b) => b.CreationDate.localeCompare(a.CreationDate)): a
\* stable sort, newest first
RECURSIVE InsertByDate(_, _)
InsertByDate(img, sorted) ==
    IF sorted = << >> THEN << img >>
    ELSE IF Head(sorted).CreationDate < img.CreationDate
         THEN << img >> \o sorted
         ELSE << Head(sorted) >> \o InsertByDate(img, Tail(sorted))

RECURSIVE SortNewestFirst(_)
SortNewestFirst(imgs) ==
    IF imgs = << >> THEN << >>
    ELSE InsertByDate(imgs[Len(imgs)], SortNewestFirst(SubSeq(imgs, 1, Len(imgs) - 1)))

\* variant: a default image stands in when the lookup answers with none
ChosenImageWithDefault(imgs) ==
    IF imgs = << >> THEN "ami-default" ELSE Head(SortNewestFirst(imgs)).ImageId

\* variant: the last image of the sorted list is taken
ChosenImageLast(imgs) ==
    IF imgs = << >> THEN None ELSE SortNewestFirst(imgs)[Len(imgs)].ImageId

\* images.Images?.sort(...)[0]?.ImageId
ChosenImage(imgs) == IF imgs = << >> THEN None ELSE Head(SortNewestFirst(imgs)).ImageId

\* the number of the instance an identifier names; 0 when it names none
InstanceNo(id) ==
    IF \E k \in 1 .. Len(instances) : InstanceIdOf(k) = id
    THEN CHOOSE k \in 1 .. Len(instances) : InstanceIdOf(k) = id
    ELSE 0

\* ---------------------------------------------------------- ends of a run
\* the instance launched by this invocation, when there is one, is marked
\* with the way the invocation ended
Marked(fate) ==
    IF instanceId = None THEN instances
    ELSE [instances EXCEPT ![InstanceNo(instanceId)].fate = fate]

\* the invocation ends with outcome res
CFinish(res) ==
    /\ cpc' = "done"
    /\ cresult' = res
    /\ instances' = Marked(IF res.kind = "return" THEN "returned" ELSE res.kind)
    /\ keyName' = None
    /\ amiId' = None
    /\ images' = None
    /\ instanceId' = None
    /\ useDoc' = None
    /\ polls' = 0
    /\ lastPoll' = None

CReturn(id, inst) ==
    CFinish([kind |-> "return", PhysicalResourceId |-> id, InstanceId |-> inst, err |-> NoError])

CThrow(e) ==
    CFinish([kind |-> "thrown", PhysicalResourceId |-> None, InstanceId |-> None, err |-> e])

\* the handler goes on to the remote call at position p
Goto(p) ==
    /\ cpc' = p
    /\ UNCHANGED cresult

Logged(entries) == clog' = clog \o entries

remoteVars == << secretKey, keyPairs, now, instances, customDoc >>

\* ----------------------------------------------------------------- Delete
\* handler, lines 29-41: Delete returns at once unless the previous
\* identifier is an instance reference; Create and Update start with the
\* credential record
adAutomationHandler(ev) ==
    /\ cpc \in {"idle", "done"}
    /\ cevent' = ev
    /\ clog' = << >>
    /\ joinOutcome' = NoOutcome
    /\ runOutcome' = NoOutcome
    /\ keyName' = None
    /\ amiId' = None
    /\ images' = None
    /\ imagesAnswer' = None
    /\ instanceId' = None
    /\ useDoc' = None
    /\ polls' = 0
    /\ lastPoll' = None
    /\ IF ev.RequestType = "Delete"
       THEN IF IsInstanceRef(ev.PhysicalResourceId)
            THEN cpc' = "terminateInstances" /\ cresult' = NoComputeResult
            ELSE /\ cpc' = "done"
                 /\ cresult' = [kind |-> "return",
                                PhysicalResourceId |->
                                    IF ev.PhysicalResourceId # None
                                    THEN ev.PhysicalResourceId ELSE "deleted",
                                InstanceId |-> None, err |-> NoError]
       ELSE /\ Len(instances) < MaxLaunches
            /\ now < MaxKeys
            /\ cpc' = "getSecretValue"
            /\ cresult' = NoComputeResult
    /\ UNCHANGED remoteVars
    /\ UNCHANGED << vars, xvars >>

ComputeInvoke == \E ev \in ComputeEvents : adAutomationHandler(ev)

\* variant: Delete waits for the instance to be terminated
terminateInstancesAndWait ==
    /\ cpc = "terminateInstances"
    /\ Logged(<< "terminateInstances", "waitUntilInstanceTerminated" >>)
    /\ \/ /\ InstanceNo(cevent.PhysicalResourceId) # 0
          /\ cpc' = "done"
          /\ cresult' = [kind |-> "return", PhysicalResourceId |-> cevent.PhysicalResourceId,
                         InstanceId |-> None, err |-> NoError]
          /\ instances' = [instances EXCEPT ![InstanceNo(cevent.PhysicalResourceId)].running = FALSE]
       \/ /\ cpc' = "done"
          /\ cresult' = [kind |-> "thrown", PhysicalResourceId |-> None,
                         InstanceId |-> None, err |-> RemoteError]
          /\ UNCHANGED instances
    /\ UNCHANGED << cevent, imagesAnswer, keyName, amiId, images, instanceId, useDoc, polls, lastPoll, joinOutcome, runOutcome,
                    secretKey, keyPairs, now, customDoc >>
    /\ UNCHANGED << vars, xvars >>

\* TerminateInstances for the previous identifier
terminateInstances ==
    /\ cpc = "terminateInstances"
    /\ Logged(<< "terminateInstances" >>)
    /\ \/ /\ InstanceNo(cevent.PhysicalResourceId) # 0
          /\ cpc' = "done"
          /\ cresult' = [kind |-> "return", PhysicalResourceId |-> cevent.PhysicalResourceId,
                         InstanceId |-> None, err |-> NoError]
          /\ instances' = [instances EXCEPT ![InstanceNo(cevent.PhysicalResourceId)].running = FALSE]
       \/ /\ cpc' = "done"
          /\ cresult' = [kind |-> "thrown", PhysicalResourceId |-> None,
                         InstanceId |-> None, err |-> RemoteError]
          /\ UNCHANGED instances
    /\ UNCHANGED << cevent, imagesAnswer, keyName, amiId, images, instanceId, useDoc, polls, lastPoll, joinOutcome, runOutcome,
                    secretKey, keyPairs, now, customDoc >>
    /\ UNCHANGED << vars, xvars >>

\* ------------------------------------------------------ getOrCreateKeyPair
\* GetSecretValue of the credential record; any error goes to the catch block
getSecretValue ==
    /\ cpc = "getSecretValue"
    /\ Logged(<< "getSecretValue" >>)
    /\ \/ keyName' = secretKey /\ Goto("describeKeyPairs")
       \/ keyName' = None /\ Goto("createKeyPair")
    /\ UNCHANGED << cevent, imagesAnswer, amiId, images, instanceId, useDoc, polls, lastPoll, joinOutcome, runOutcome >>
    /\ UNCHANGED remoteVars
    /\ UNCHANGED << vars, xvars >>

\* DescribeKeyPairs of the recorded name: it succeeds only for a key pair
\* that exists, and any error goes to the catch block
describeKeyPairs ==
    /\ cpc = "describeKeyPairs"
    /\ Logged(<< "describeKeyPairs" >>)
    /\ \/ keyName \in keyPairs /\ Goto("describeImages") /\ UNCHANGED keyName
       \/ keyName' = None /\ Goto("createKeyPair")
    /\ UNCHANGED << cevent, imagesAnswer, amiId, images, instanceId, useDoc, polls, lastPoll, joinOutcome, runOutcome >>
    /\ UNCHANGED remoteVars
    /\ UNCHANGED << vars, xvars >>

\* catch block: CreateKeyPair with a name made from the clock
createKeyPair ==
    /\ cpc = "createKeyPair"
    /\ Logged(<< "createKeyPair" >>)
    /\ now' = now + 1
    /\ \/ /\ keyName' = KeyNameOf(now + 1)
          /\ keyPairs' = keyPairs \cup {KeyNameOf(now + 1)}
          /\ Goto("putSecretValue")
          /\ UNCHANGED << instances, amiId, images, instanceId, useDoc, polls, lastPoll >>
       \/ /\ CThrow(RemoteError)
          /\ UNCHANGED keyPairs
    /\ UNCHANGED << cevent, imagesAnswer, joinOutcome, runOutcome, secretKey, customDoc >>
    /\ UNCHANGED << vars, xvars >>

\* catch block: PutSecretValue writes the new name to the record
putSecretValue ==
    /\ cpc = "putSecretValue"
    /\ Logged(<< "putSecretValue" >>)
    /\ \/ /\ secretKey' = keyName
          /\ Goto("describeImages")
          /\ UNCHANGED << instances, keyName, amiId, images, instanceId, useDoc, polls, lastPoll >>
       \/ /\ CThrow(RemoteError)
          /\ UNCHANGED secretKey
    /\ UNCHANGED << cevent, imagesAnswer, joinOutcome, runOutcome, keyPairs, now, customDoc >>
    /\ UNCHANGED << vars, xvars >>

\* ------------------------------------------------------- launchEC2Instance
\* DescribeImages and the choice of the newest image
describeImages ==
    /\ cpc = "describeImages"
    /\ Logged(<< "describeImages" >>)
    /\ \/ \E imgs \in ImageLists :
             /\ imagesAnswer' = IF imgs = << >> THEN "empty" ELSE "images"
             /\ IF ChosenImage(imgs) = None
                THEN CThrow(NoAmiError)
                ELSE /\ amiId' = ChosenImage(imgs)
                     /\ images' = imgs
                     /\ Goto("runInstances")
                     /\ UNCHANGED << instances, keyName, instanceId, useDoc, polls, lastPoll >>
       \/ CThrow(RemoteError) /\ UNCHANGED imagesAnswer
    /\ UNCHANGED << cevent, joinOutcome, runOutcome, secretKey, keyPairs, now, customDoc >>
    /\ UNCHANGED << vars, xvars >>

\* RunInstances: a new instance exists from here on
runInstances ==
    /\ cpc = "runInstances"
    /\ Logged(<< "runInstances" >>)
    /\ \/ /\ instances' = Append(instances, [running |-> TRUE, fate |-> "inflight",
                                             by |-> cevent.RequestType,
                                             key |-> keyName])
          /\ instanceId' = InstanceIdOf(Len(instances) + 1)
          /\ keyName' = None
          /\ amiId' = None
          /\ images' = None
          /\ Goto("waitUntilInstanceRunning")
          /\ UNCHANGED << useDoc, polls, lastPoll >>
       \/ CThrow(RemoteError)
    /\ UNCHANGED << cevent, imagesAnswer, joinOutcome, runOutcome, secretKey, keyPairs, now, customDoc >>
    /\ UNCHANGED << vars, xvars >>

\* --------------------------------------------------------- waitForInstance
\* waitUntilInstanceRunning, then the fixed delay of two minutes
waitUntilInstanceRunning ==
    /\ cpc = "waitUntilInstanceRunning"
    /\ \/ /\ Logged(<< "waitUntilInstanceRunning", "settleDelay" >>)
          /\ Goto("describeInstanceInformation")
          /\ UNCHANGED << instances, keyName, amiId, images, instanceId, useDoc, polls, lastPoll >>
       \/ /\ Logged(<< "waitUntilInstanceRunning" >>)
          /\ CThrow(RemoteError)
    /\ UNCHANGED << cevent, imagesAnswer, joinOutcome, runOutcome, secretKey, keyPairs, now, customDoc >>
    /\ UNCHANGED << vars, xvars >>

\* -------------------------------------------------------------- joinDomain
PollPositions == {"waitForJoinCommand", "waitForRunCommand"}

\* variant: joinDomain does not wait for the join command
AfterCallWithoutJoinWait(p) ==
    CASE p = "sendJoinCommand" -> "getAdminPassword"
      [] p = "waitForJoinCommand" -> "getAdminPassword"
      [] p = "getAdminPassword" -> "sendRunCommand"
      [] p = "sendRunCommand" -> "waitForRunCommand"
      [] OTHER -> "return"

\* lines 164-190 and 50-52: what follows each call of joinDomain from the
\* dispatch of the join command on
AfterCall(p) ==
    CASE p = "sendJoinCommand" -> "waitForJoinCommand"
      [] p = "waitForJoinCommand" -> "getAdminPassword"
      [] p = "getAdminPassword" -> "sendRunCommand"
      [] p = "sendRunCommand" -> "waitForRunCommand"
      [] OTHER -> "return"

\* variant: an empty list fails the workflow after the delay
describeInstanceInformationStrict ==
    /\ cpc = "describeInstanceInformation"
    /\ \/ /\ Logged(<< "describeInstanceInformation" >>)
          /\ Goto("getDocument")
          /\ UNCHANGED << instances, keyName, amiId, images, instanceId, useDoc, polls, lastPoll >>
       \/ /\ Logged(<< "describeInstanceInformation", "ssmDelay" >>)
          /\ CThrow(RemoteError)
       \/ /\ Logged(<< "describeInstanceInformation" >>)
          /\ CThrow(RemoteError)
    /\ UNCHANGED << cevent, imagesAnswer, joinOutcome, runOutcome, secretKey, keyPairs, now, customDoc >>
    /\ UNCHANGED << vars, xvars >>

\* DescribeInstanceInformation; one more fixed delay when the list is empty
describeInstanceInformation ==
    /\ cpc = "describeInstanceInformation"
    /\ \/ /\ \E visible \in BOOLEAN :
                Logged(IF visible THEN << "describeInstanceInformation" >>
                       ELSE << "describeInstanceInformation", "ssmDelay" >>)
          /\ Goto("getDocument")
          /\ UNCHANGED << instances, keyName, amiId, images, instanceId, useDoc, polls, lastPoll >>
       \/ /\ Logged(<< "describeInstanceInformation" >>)
          /\ CThrow(RemoteError)
    /\ UNCHANGED << cevent, imagesAnswer, joinOutcome, runOutcome, secretKey, keyPairs, now, customDoc >>
    /\ UNCHANGED << vars, xvars >>

\* variant: the custom document is used even when the built-in one is found
getDocumentAlwaysCustom ==
    /\ cpc = "getDocument"
    /\ Logged(<< "getDocument" >>)
    /\ \/ useDoc' = CustomDoc /\ Goto("sendJoinCommand")
       \/ useDoc' = CustomDoc /\ Goto("getCustomDocument")
    /\ UNCHANGED << cevent, imagesAnswer, keyName, amiId, images, instanceId, polls, lastPoll, joinOutcome, runOutcome >>
    /\ UNCHANGED remoteVars
    /\ UNCHANGED << vars, xvars >>

\* GetDocument of the built-in document
getDocument ==
    /\ cpc = "getDocument"
    /\ Logged(<< "getDocument" >>)
    /\ \/ useDoc' = BuiltinDoc /\ Goto("sendJoinCommand")
       \/ useDoc' = CustomDoc /\ Goto("getCustomDocument")
    /\ UNCHANGED << cevent, imagesAnswer, keyName, amiId, images, instanceId, polls, lastPoll, joinOutcome, runOutcome >>
    /\ UNCHANGED remoteVars
    /\ UNCHANGED << vars, xvars >>

\* GetDocument of the custom document: it succeeds only when it exists
getCustomDocument ==
    /\ cpc = "getCustomDocument"
    /\ Logged(<< "getCustomDocument" >>)
    /\ \/ customDoc /\ Goto("sendJoinCommand")
       \/ Goto("createDocument")
    /\ UNCHANGED << cevent, imagesAnswer, keyName, amiId, images, instanceId, useDoc, polls, lastPoll, joinOutcome, runOutcome >>
    /\ UNCHANGED remoteVars
    /\ UNCHANGED << vars, xvars >>

\* CreateDocument of the custom document: it succeeds only when it is new
createDocument ==
    /\ cpc = "createDocument"
    /\ Logged(<< "createDocument" >>)
    /\ \/ /\ ~customDoc
          /\ customDoc' = TRUE
          /\ Goto("sendJoinCommand")
          /\ UNCHANGED << instances, keyName, amiId, images, instanceId, useDoc, polls, lastPoll >>
       \/ /\ CThrow(IF customDoc THEN DocumentAlreadyExists ELSE RemoteError)
          /\ UNCHANGED customDoc
    /\ UNCHANGED << cevent, imagesAnswer, joinOutcome, runOutcome, secretKey, keyPairs, now >>
    /\ UNCHANGED << vars, xvars >>

\* what waitForCommand gives its caller: the function returns nothing
WaitValue(how) == "undefined"

\* waitForCommand at position q returns, having ended the way how says, and
\* the handler goes on to the next call or returns the instance
PollerReturn(q, how) ==
    /\ IF q = "waitForJoinCommand"
       THEN joinOutcome' = [how |-> how, value |-> WaitValue(how)] /\ UNCHANGED runOutcome
       ELSE runOutcome' = [how |-> how, value |-> WaitValue(how)] /\ UNCHANGED joinOutcome
    /\ IF AfterCall(q) = "return"
       THEN CReturn(instanceId, instanceId)
       ELSE /\ Goto(AfterCall(q))
            /\ polls' = 0
            /\ lastPoll' = None
            /\ UNCHANGED << instances, keyName, amiId, images, instanceId, useDoc >>

WaitStart(q) == IF q = "waitForJoinCommand" THEN "joinWaitStart" ELSE "runWaitStart"

WaitEnd(q) == IF q = "waitForJoinCommand" THEN "joinWaitEnd" ELSE "runWaitEnd"

InitialDelay(q) == IF q = "waitForJoinCommand" THEN "joinInitialDelay" ELSE "runInitialDelay"

\* SendCommand of the join or of the script command, then the start of
\* waitForCommand: return at once without a command id, else the initial delay
sendCommand ==
    /\ cpc \in {"sendJoinCommand", "sendRunCommand"}
    /\ \/ \E id \in CommandIds :
             IF AfterCall(cpc) \notin PollPositions
             THEN /\ Logged(<< cpc >>)
                  /\ Goto(AfterCall(cpc))
                  /\ UNCHANGED << instances, keyName, amiId, images, instanceId, useDoc, polls, lastPoll,
                                  joinOutcome, runOutcome >>
             ELSE IF id = ""
             THEN /\ Logged(<< cpc, WaitStart(AfterCall(cpc)), WaitEnd(AfterCall(cpc)) >>)
                  /\ PollerReturn(AfterCall(cpc), "noCommand")
             ELSE /\ Logged(<< cpc, WaitStart(AfterCall(cpc)), InitialDelay(AfterCall(cpc)) >>)
                  /\ Goto(AfterCall(cpc))
                  /\ polls' = 0
                  /\ lastPoll' = None
                  /\ UNCHANGED << instances, keyName, amiId, images, instanceId, useDoc,
                                  joinOutcome, runOutcome >>
       \/ /\ Logged(<< cpc >>)
          /\ CThrow(RemoteError)
          /\ UNCHANGED << joinOutcome, runOutcome >>
    /\ UNCHANGED << cevent, imagesAnswer, secretKey, keyPairs, now, customDoc >>
    /\ UNCHANGED << vars, xvars >>

\* variant: the loop bound is inclusive
PollCondInclusive(i) == i <= PollBudget

PollCond(i) == i < PollBudget

\* variant: the loop has no try/catch, an error of the query is thrown on
getCommandInvocationThrowing ==
    /\ cpc \in PollPositions
    /\ PollCond(polls)
    /\ \E st \in CommandStatuses \cup {"error"} :
          IF st \in TerminalStatuses
          THEN /\ Logged(<< WaitEnd(cpc) >>)
               /\ PollerReturn(cpc, st)
          ELSE IF st = "error"
          THEN /\ CThrow(RemoteError)
               /\ UNCHANGED << clog, joinOutcome, runOutcome >>
          ELSE /\ polls' = polls + 1
               /\ lastPoll' = st
               /\ UNCHANGED << cpc, cresult, clog, instances, keyName, amiId, images, instanceId,
                               useDoc, joinOutcome, runOutcome >>
    /\ UNCHANGED << cevent, imagesAnswer, secretKey, keyPairs, now, customDoc >>
    /\ UNCHANGED << vars, xvars >>

\* one round of the loop of waitForCommand: GetCommandInvocation, return on a
\* terminal status, else (any other status, or an error) the delay and i++
getCommandInvocation ==
    /\ cpc \in PollPositions
    /\ PollCond(polls)
    /\ \E st \in CommandStatuses \cup {"error"} :
          IF st \in TerminalStatuses
          THEN /\ Logged(<< WaitEnd(cpc) >>)
               /\ PollerReturn(cpc, st)
          ELSE /\ polls' = polls + 1
               /\ lastPoll' = st
               /\ UNCHANGED << cpc, cresult, clog, instances, keyName, amiId, images, instanceId,
                               useDoc, joinOutcome, runOutcome >>
    /\ UNCHANGED << cevent, imagesAnswer, secretKey, keyPairs, now, customDoc >>
    /\ UNCHANGED << vars, xvars >>

\* the loop of waitForCommand ends without a terminal status
pollBudgetSpent ==
    /\ cpc \in PollPositions
    /\ ~PollCond(polls)
    /\ Logged(<< WaitEnd(cpc) >>)
    /\ PollerReturn(cpc, "gaveUp")
    /\ UNCHANGED << cevent, imagesAnswer, secretKey, keyPairs, now, customDoc >>
    /\ UNCHANGED << vars, xvars >>

\* getAdminPassword: GetSecretValue of the admin secret
getAdminPassword ==
    /\ cpc = "getAdminPassword"
    /\ Logged(<< "getAdminPassword" >>)
    /\ \/ /\ Goto(AfterCall(cpc))
          /\ UNCHANGED << instances, keyName, amiId, images, instanceId, useDoc, polls, lastPoll >>
       \/ CThrow(RemoteError)
    /\ UNCHANGED << cevent, imagesAnswer, joinOutcome, runOutcome, secretKey, keyPairs, now, customDoc >>
    /\ UNCHANGED << vars, xvars >>

\* the time a logged call or delay takes at least, in milliseconds: a fixed
\* delay takes its length, a remote call or waiter can answer at once
DelayOf(e) ==
    CASE e = "settleDelay" -> SettleDelay
      [] e = "ssmDelay" -> SsmDelay
      [] e \in {"joinInitialDelay", "runInitialDelay"} -> CommandInitialDelay
      [] OTHER -> 0

\* the time the rounds of a waitForCommand call took at least: a call that
\* used up its budget slept after every one of its queries
RoundsOf(outcome) == IF outcome.how = "gaveUp" THEN PollBudget * PollInterval ELSE 0

FunctionTimeout == FunctionTimeoutMinutes * 60 * 1000

\* the function is stopped at its timeout, wherever it is
kill ==
    /\ cpc \notin {"idle", "done"}
    /\ CFinish([kind |-> "killed", PhysicalResourceId |-> None, InstanceId |-> None,
                err |-> NoError])
    /\ UNCHANGED << cevent, imagesAnswer, clog, joinOutcome, runOutcome, secretKey, keyPairs, now, customDoc >>
    /\ UNCHANGED << vars, xvars >>

NoInvocation ==
    [cpc |-> "idle", cevent |-> NoComputeEvent, keyName |-> None, amiId |-> None,
     images |-> None, imagesAnswer |-> None, instanceId |-> None, useDoc |-> None,
     polls |-> 0, lastPoll |-> None, clog |-> << >>, joinOutcome |-> NoOutcome, runOutcome |-> NoOutcome,
     cresult |-> NoComputeResult]

\* the running invocation and the waiting one change places: the functions
\* run as separate executions that share only the remote side
switch ==
    /\ parked' = [cpc |-> cpc, cevent |-> cevent, keyName |-> keyName, amiId |-> amiId,
                  images |-> images, imagesAnswer |-> imagesAnswer,
                  instanceId |-> instanceId, useDoc |-> useDoc, polls |-> polls, lastPoll |-> lastPoll,
                  clog |-> clog, joinOutcome |-> joinOutcome, runOutcome |-> runOutcome,
                  cresult |-> cresult]
    /\ cpc' = parked.cpc
    /\ cevent' = parked.cevent
    /\ keyName' = parked.keyName
    /\ amiId' = parked.amiId
    /\ images' = parked.images
    /\ imagesAnswer' = parked.imagesAnswer
    /\ instanceId' = parked.instanceId
    /\ useDoc' = parked.useDoc
    /\ polls' = parked.polls
    /\ lastPoll' = parked.lastPoll
    /\ clog' = parked.clog
    /\ joinOutcome' = parked.joinOutcome
    /\ runOutcome' = parked.runOutcome
    /\ cresult' = parked.cresult
    /\ UNCHANGED remoteVars
    /\ UNCHANGED << vars, hvars, dvars >>

\* a first Create invocation of the running side
ConcurrentInvoke ==
    /\ cpc = "idle"
    /\ adAutomationHandler([RequestType |-> "Create", PhysicalResourceId |-> None])

ComputeIdle ==
    /\ parked = NoInvocation
    /\ cpc = "idle"
    /\ cevent = NoComputeEvent
    /\ keyName = None
    /\ amiId = None
    /\ images = None
    /\ imagesAnswer = None
    /\ instanceId = None
    /\ useDoc = None
    /\ polls = 0
    /\ lastPoll = None
    /\ clog = << >>
    /\ joinOutcome = NoOutcome
    /\ runOutcome = NoOutcome
    /\ cresult = NoComputeResult
    /\ secretKey = InitialKeyName
    /\ keyPairs = {}
    /\ now = 0
    /\ instances = << >>
    /\ customDoc = FALSE


\* =========================================================================
\* The health check function of the monitoring stack (QuickSightHealthCheck).
\* Each remote call of an invocation is one step.
\* =========================================================================
\* AccountSubscriptionStatus of the response; None when the key is absent
HealthStatuses == {"ACCOUNT_CREATED", "UNSUBSCRIBE_FAILED", "UNSUBSCRIBE_IN_PROGRESS", None}

\* exceptions of boto3 calls, and the KeyError of the subscript
ClientErrors == {"AccessDeniedException", "ThrottlingException"}

KeyError == "KeyError"

NoHealthOutcome == [kind |-> None, err |-> None]

\* health_value = 1 if status == 'ACCOUNT_CREATED' else 0
HealthValue(st) == IF st = "ACCOUNT_CREATED" THEN 1 ELSE 0

\* the schedule invokes the function
healthHandler ==
    /\ hpc \in {"idle", "done"}
    /\ Len(datapoints) < MaxDatapoints
    /\ hpc' = "describe"
    /\ hstatus' = "unread"
    /\ hcaught' = None
    /\ hpublished' = << >>
    /\ houtcome' = NoHealthOutcome
    /\ UNCHANGED datapoints
    /\ UNCHANGED << vars, cvars, parked, dvars >>

\* describe_account_subscription and the read of the status
describeAccountSubscription ==
    /\ hpc = "describe"
    /\ \/ \E st \in HealthStatuses :
             IF st = None
             THEN hstatus' = "unread" /\ hcaught' = KeyError /\ hpc' = "putZero"
             ELSE hstatus' = st /\ hcaught' = None /\ hpc' = "putHealth"
       \/ \E e \in ClientErrors :
             hstatus' = "unread" /\ hcaught' = e /\ hpc' = "putZero"
    /\ UNCHANGED << hpublished, houtcome, datapoints >>
    /\ UNCHANGED << vars, cvars, parked, dvars >>

\* put_metric_data of health_value inside the try block, then the return
putHealthValue ==
    /\ hpc = "putHealth"
    /\ \/ /\ datapoints' = Append(datapoints, HealthValue(hstatus))
          /\ hpublished' = Append(hpublished, HealthValue(hstatus))
          /\ houtcome' = [kind |-> "return", err |-> None]
          /\ hpc' = "done"
          /\ UNCHANGED hcaught
       \/ \E e \in ClientErrors :
             /\ hcaught' = e
             /\ hpc' = "putZero"
             /\ UNCHANGED << datapoints, hpublished, houtcome >>
    /\ UNCHANGED hstatus
    /\ UNCHANGED << vars, cvars, parked, dvars >>

\* except block: put_metric_data of 0, then raise e; an exception of the call
\* itself leaves the function instead
putZero ==
    /\ hpc = "putZero"
    /\ \/ /\ datapoints' = Append(datapoints, 0)
          /\ hpublished' = Append(hpublished, 0)
          /\ houtcome' = [kind |-> "raise", err |-> hcaught]
       \/ \E e \in ClientErrors :
             /\ houtcome' = [kind |-> "raise", err |-> e]
             /\ UNCHANGED << datapoints, hpublished >>
    /\ hpc' = "done"
    /\ UNCHANGED << hstatus, hcaught >>
    /\ UNCHANGED << vars, cvars, parked, dvars >>

HealthIdle ==
    /\ hpc = "idle"
    /\ hstatus = "unread"
    /\ hcaught = None
    /\ hpublished = << >>
    /\ houtcome = NoHealthOutcome
    /\ datapoints = << >>

HealthNext == healthHandler \/ describeAccountSubscription \/ putHealthValue \/ putZero

\* =========================================================================
\* The app: the stacks of one deployment, in the order of their dependencies,
\* and the SSM parameters they write and read.
\* =========================================================================
\* values of the context keys; None when the key is not given
ContextPrefixes == {None, "draupnir", "acme"}

ContextStages == {None, "gamma", "prod"}

ContextFlags == {None, "true", "false"}

Contexts ==
    [projectPrefix : ContextPrefixes, stage : ContextStages, enableQuickSight : ContextFlags]

\* tryGetContext(key) ?? fallback
OrDefault(v, fallback) == IF v = None THEN fallback ELSE v

\* stage, projectPrefix and enableQuickSight of the app
AppConfig(ctx) ==
    [stage |-> OrDefault(ctx.stage, "dev"),
     projectPrefix |-> OrDefault(ctx.projectPrefix, "managed-ad"),
     enableQuickSight |-> (OrDefault(ctx.enableQuickSight, "true") = "true")]

NoConfig == [stage |-> None, projectPrefix |-> None, enableQuickSight |-> FALSE]

ParamName(prefix, stage, key) == "/" \o prefix \o "/" \o stage \o "/" \o key

\* the parameters ManagedAdStack writes
ManagedAdWrites(stage) ==
    { ParamName("draupnir", stage, k) :
        k \in {"domain-admin-secret-arn", "vpc-id", "vpc-azs", "subnet-ids", "directory-id",
               "dns-ip", "dns-ips", "user-password-secret-arn"} }

\* the parameters AdAutomationStack reads
AdAutomationReads(prefix, stage) ==
    { ParamName(prefix, stage, k) :
        k \in {"directory-id", "vpc-id", "domain-admin-secret-arn", "vpc-azs", "subnet-ids"} }

\* the parameters QuickSightSubscriptionStack reads
QuickSightReads(prefix, stage) == { ParamName(prefix, stage, "directory-id") }

\* cdk deploy --all with the context ctx
cdkDeploy(ctx) ==
    /\ dpc \in {"idle", "done"}
    /\ dconfig' = AppConfig(ctx)
    /\ dpc' = "ManagedAd"
    /\ dmissing' = {}
    /\ UNCHANGED params
    /\ UNCHANGED << vars, cvars, parked, hvars >>

Deploy == \E ctx \in Contexts : cdkDeploy(ctx)

deployManagedAd ==
    /\ dpc = "ManagedAd"
    /\ params' = params \cup ManagedAdWrites(dconfig.stage)
    /\ dpc' = "AdAutomation"
    /\ UNCHANGED << dconfig, dmissing >>
    /\ UNCHANGED << vars, cvars, parked, hvars >>

\* a stack whose parameters do not all exist fails, and the deployment ends
deployAdAutomation ==
    /\ dpc = "AdAutomation"
    /\ dmissing' = AdAutomationReads(dconfig.projectPrefix, dconfig.stage) \ params
    /\ dpc' = IF dmissing' = {} /\ dconfig.enableQuickSight THEN "QuickSight" ELSE "done"
    /\ UNCHANGED << dconfig, params >>
    /\ UNCHANGED << vars, cvars, parked, hvars >>

deployQuickSight ==
    /\ dpc = "QuickSight"
    /\ dmissing' = QuickSightReads(dconfig.projectPrefix, dconfig.stage) \ params
    /\ dpc' = "done"
    /\ UNCHANGED << dconfig, params >>
    /\ UNCHANGED << vars, cvars, parked, hvars >>

DeployIdle ==
    /\ dpc = "idle"
    /\ dconfig = NoConfig
    /\ params = {}
    /\ dmissing = {}

DeployNext == Deploy \/ deployManagedAd \/ deployAdAutomation \/ deployQuickSight

\* ----------------------------------------------------------- specifications
Idle ==
    /\ event = NoEvent
    /\ attempt = 0
    /\ lastError = NoError
    /\ calls = 0
    /\ sleeps = 0
    /\ totalDelay = 0
    /\ lastLine = NoLine
    /\ prevLine = NoLine
    /\ status = "unread"
    /\ capacityRegion = "unread"
    /\ caught = NoError
    /\ thrownAt = None
    /\ issued = [o \in Ops |-> 0]
    /\ succeeded = [o \in Ops |-> 0]
    /\ result = NoResult
    /\ returned = [a \in Accounts |-> {}]

\* the handler, before its first invocation
Init ==
    /\ pc = "idle"
    /\ maxRetries = 0
    /\ baseDelay = 0
    /\ Idle
    /\ ComputeIdle
    /\ HealthIdle
    /\ DeployIdle

Next == Invoke \/ withRetryReturn \/ withRetryCatch \/ withRetryExhausted

Spec == Init /\ [][Next]_vars

\* one call of withRetry on its own, with any maximum and base delay
RetryInit ==
    /\ pc = "standalone"
    /\ maxRetries \in 1 .. MaxAttemptsBound
    /\ baseDelay \in BaseDelays
    /\ Idle
    /\ ComputeIdle
    /\ HealthIdle
    /\ DeployIdle

RetryNext == withRetryReturn \/ withRetryCatch \/ withRetryExhausted

SpecRetry == RetryInit /\ [][RetryNext]_vars

\* the AD automation handler, invoked again and again, stopped at any point
ComputeNext ==
    \/ ComputeInvoke
    \/ terminateInstances
    \/ getSecretValue
    \/ describeKeyPairs
    \/ createKeyPair
    \/ putSecretValue
    \/ describeImages
    \/ runInstances
    \/ waitUntilInstanceRunning
    \/ describeInstanceInformation
    \/ getDocument
    \/ getCustomDocument
    \/ createDocument
    \/ sendCommand
    \/ getCommandInvocation
    \/ pollBudgetSpent
    \/ getAdminPassword
    \/ kill

SpecCompute == Init /\ [][ComputeNext]_<< vars, cvars, xvars >>

\* two Create invocations that share the remote side, interleaved in every
\* way.  The polls of waitForCommand read nothing that an invocation writes,
\* so an invocation whose command has an identifier is followed up to the
\* start of its polling loop; one whose SendCommand answers carry no
\* identifier runs to its return.
ConcurrentNext ==
    \/ ConcurrentInvoke
    \/ switch
    \/ getSecretValue
    \/ describeKeyPairs
    \/ createKeyPair
    \/ putSecretValue
    \/ describeImages
    \/ runInstances
    \/ waitUntilInstanceRunning
    \/ describeInstanceInformation
    \/ getDocument
    \/ getCustomDocument
    \/ createDocument
    \/ sendCommand
    \/ getAdminPassword

SpecConcurrent == Init /\ [][ConcurrentNext]_<< vars, cvars, xvars >>

\* the health check function, invoked again and again
SpecHealth == Init /\ [][HealthNext]_allvars

\* deployments of the app, one after the other
SpecDeploy == Init /\ [][DeployNext]_allvars

\* ------------------------------------------------------------------ claims
Penalty(line) == IF line.code = "ThrottlingException" THEN ThrottlingPenalty ELSE 0

\* the exponential part of the delay of a log line
ExpPart(line) == line.delay - Penalty(line)

NoMutatingCall == \A o \in MutatingOps : issued[o] = 0

CreateOrUpdate == event.RequestType \in {"Create", "Update"}

\* C1: a retrier call with a maximum of n >= 1 attempts invokes the
\* operation at most n times, whatever the operation's outcomes are.
AttemptsWithinMax == calls <= maxRetries

AttemptsWithinMaxWitness ==
    /\ pc = "done"
    /\ result.kind = "throw"
    /\ maxRetries >= 2
    /\ calls = maxRetries

\* C2 as stated: while the exponential part is below the cap, the delay after
\* a retryable failure is at least the delay after the failure before it,
\* for every mix of error kinds.
DelayNonDecreasing ==
    (prevLine # NoLine /\ ExpPart(prevLine) < DelayCap) => lastLine.delay >= prevLine.delay

\* C2 as amended: the exponential part of the delay never decreases from one
\* retryable failure to the next, and the delay itself does not decrease
\* unless the earlier failure is a throttling error and the later one is not.
DelayNonDecreasingUnlessPenaltyDropped ==
    prevLine # NoLine =>
        /\ ExpPart(lastLine) >= ExpPart(prevLine)
        /\ ExpPart(lastLine) <= DelayCap
        /\ (prevLine.code # "ThrottlingException" \/ lastLine.code = "ThrottlingException")
              => lastLine.delay >= prevLine.delay

DelayNonDecreasingWitness ==
    /\ prevLine.code = "InternalFailure"
    /\ ExpPart(prevLine) < DelayCap
    /\ lastLine.code = "ThrottlingException"
    /\ lastLine.delay = DelayCap + ThrottlingPenalty

\* C3: an error that is not marked retryable and is neither a throttling
\* error nor an internal failure ends the retrier call at once: the call
\* throws that error, without a sleep and without another invocation.
FatalPropagates ==
    ( /\ lastError # NoError
      /\ ~lastError.retryable
      /\ lastError.name \notin {"ThrottlingException", "InternalFailure"} )
    => /\ pc = "done"
       /\ result = ThrowOf(lastError)
       /\ sleeps = calls - 1
       /\ attempt = calls - 1

FatalPropagatesWitness ==
    /\ pc = "done"
    /\ result.kind = "throw"
    /\ result.err.name = "AccessDeniedException"
    /\ calls = 3
    /\ sleeps = 2

\* C4: with status UNSUBSCRIBE_FAILED a create request is sent only after a
\* delete call of the same invocation has succeeded.
DeleteThenCreate ==
    status = "UNSUBSCRIBE_FAILED" => (issued["create"] > 0 => succeeded["delete"] > 0)

\* C5: with status ACCOUNT_CREATED and no region mismatch, whatever the
\* namespace lookup returns or raises, no mutating call is issued and what
\* the invocation returns has Status "Existing".
ExistingNoMutation ==
    (CreateOrUpdate /\ status = "ACCOUNT_CREATED" /\ capacityRegion \in {"unread", AWS_REGION})
    => /\ NoMutatingCall
       /\ result.kind = "return" => result.Status = "Existing"

\* C6: with status ACCOUNT_CREATED and a namespace region other than the
\* invocation's region the invocation ends with an error thrown to the
\* caller, and no mutating call has been issued.
RegionMismatchFails ==
    (status = "ACCOUNT_CREATED" /\ capacityRegion \notin {"unread", None, AWS_REGION})
    => /\ pc = "done"
       /\ result.kind = "throw"
       /\ result.err.name = "Error"
       /\ NoMutatingCall

RegionMismatchFailsWitness ==
    /\ pc = "done"
    /\ status = "ACCOUNT_CREATED"
    /\ capacityRegion = "eu-west-1"
    /\ result.kind = "throw"
    /\ issued["listNamespaces"] = 1

\* the status query of a Create invocation reported not found
NotFoundAtDescribe ==
    /\ event.RequestType = "Create"
    /\ thrownAt = "describe"
    /\ caught.name = "ResourceNotFoundException"

\* C7 as stated: a Create invocation whose status query reports not found
\* sends exactly one create request and returns the account's identifier
\* with Status "Created".
CreateOnNotFound ==
    (NotFoundAtDescribe /\ pc = "done")
    => /\ issued["create"] = 1
       /\ calls = 1
       /\ result = ReturnOf("quicksight-subscription-" \o event.AwsAccountId, "Created")

\* C7 as amended: such an invocation makes exactly one retried create call
\* (1 to 10 create requests, one if the first succeeds) and no delete or
\* settings update; it returns the account's identifier with Status
\* "Created" if and only if that create call succeeds.
CreateOnNotFoundIfCreateSucceeds ==
    NotFoundAtDescribe =>
        /\ issued["updateSettings"] = 0 /\ issued["delete"] = 0
        /\ issued["create"] <= 1
        /\ pc = "done" =>
              /\ issued["create"] = 1
              /\ calls \in 1 .. DefaultMaxRetries
              /\ sleeps = 0 => calls = 1
              /\ succeeded["create"] = 1 <=>
                    result = ReturnOf("quicksight-subscription-" \o event.AwsAccountId, "Created")

CreateOnNotFoundWitness ==
    /\ NotFoundAtDescribe
    /\ pc = "done"
    /\ result.Status = "Created"
    /\ calls = 3

\* C8: an internal failure or a throttling error that ends a remote call of
\* a Create or Update invocation is never thrown to the caller: the
\* invocation returns the account's identifier with a partial-failure
\* status naming the error kind.
PartialFailureOnEveryPath ==
    /\ caught.name \in {"InternalFailure", "ThrottlingException"}
          => /\ pc = "done"
             /\ result = ReturnOf("quicksight-subscription-" \o event.AwsAccountId,
                                  "PartialFailure-" \o caught.name)
    /\ ~(result.kind = "throw" /\ result.err.name \in {"InternalFailure", "ThrottlingException"})

\* C9: a Delete invocation sends no remote request and returns, with the
\* previous identifier when the event carries one.
DeleteIsNoOp ==
    event.RequestType = "Delete" =>
        /\ pc = "done"
        /\ \A o \in Ops : issued[o] = 0
        /\ calls = 0
        /\ result.kind = "return"
        /\ event.PhysicalResourceId # None => result.PhysicalResourceId = event.PhysicalResourceId

DeleteIsNoOpWitness ==
    /\ event.RequestType = "Delete"
    /\ event.PhysicalResourceId = "previous-id"
    /\ result.PhysicalResourceId = "previous-id"
    /\ \E a \in Accounts : returned[a] # {}

\* C10: all results returned by Create and Update invocations for one
\* account, whatever their status and however many create attempts were
\* made, carry one and the same identifier.
SameIdentifier ==
    /\ \A a \in Accounts : Cardinality({ r[1] : r \in returned[a] }) <= 1
    /\ (CreateOrUpdate /\ pc = "done" /\ result.kind = "return")
          => << result.PhysicalResourceId, event.RequestType >> \in returned[event.AwsAccountId]

SameIdentifierWitness ==
    /\ pc = "done"
    /\ event.RequestType = "Update"
    /\ result.Status = "PartialFailure-ThrottlingException"
    /\ { r[2] : r \in returned[event.AwsAccountId] } = {"Create", "Update"}
    /\ issued["create"] = 1
    /\ calls = DefaultMaxRetries

\* ------------------------------ claims: subscription handler, second part
Degradable == {"InternalFailure", "ThrottlingException"}

\* C21: with status UNSUBSCRIBE_FAILED a delete call is issued only after the
\* settings update has succeeded and a create call only after the delete has
\* succeeded; when the settings update or the delete ends with an error that
\* is neither an internal failure nor throttling, no later step is issued.
RecoveryStepsInOrder ==
    status = "UNSUBSCRIBE_FAILED" =>
        /\ issued["delete"] > 0 => succeeded["updateSettings"] > 0
        /\ issued["create"] > 0 => succeeded["delete"] > 0
        /\ (thrownAt = "updateSettings" /\ caught.name \notin Degradable)
              => issued["delete"] = 0 /\ issued["create"] = 0
        /\ (thrownAt = "delete" /\ caught.name \notin Degradable)
              => issued["create"] = 0

PendingStatus == status \notin {"unread", "ACCOUNT_CREATED", "UNSUBSCRIBE_FAILED"}

\* C22: with any other status the handler goes straight to a create call,
\* without a delete or a settings update; a not-found error of that call is
\* followed by a second create call, as for a not-found status, and an error
\* that is not found, internal failure or throttling is thrown to the caller.
PendingStatusCreates ==
    PendingStatus =>
        /\ issued["updateSettings"] = 0 /\ issued["delete"] = 0
        /\ pc \in {"create", "createInCatch", "done"}
        /\ pc = "done" => issued["create"] >= 1
        /\ caught.name = "ResourceNotFoundException"
              => /\ thrownAt = "create"
                 /\ pc \in {"createInCatch", "done"}
                 /\ pc = "done" => issued["create"] = 2
        /\ (pc = "done" /\ result.kind = "throw" /\ result.err.name = "ResourceNotFoundException")
              => issued["create"] = 2
        /\ (pc = "done" /\ caught # NoError
               /\ caught.name \notin Degradable \cup {"ResourceNotFoundException"})
              => result = ThrowOf(caught)
        /\ (pc = "done" /\ lastError # NoError /\ lastError.name \notin Degradable
               /\ succeeded["create"] = 0)
              => result = ThrowOf(lastError)

PendingStatusCreatesWitness ==
    /\ PendingStatus
    /\ status = "UNSUBSCRIBE_IN_PROGRESS"
    /\ pc = "done"
    /\ caught.name = "ResourceNotFoundException"
    /\ thrownAt = "create"
    /\ result.Status = "Created"
    /\ issued["create"] = 2

\* the retrier call has used up its attempts: every attempt failed and was
\* followed by a sleep
Exhausted ==
    /\ pc = "done"
    /\ result.kind = "throw"
    /\ calls = maxRetries
    /\ sleeps = maxRetries

\* C23: a retrier call whose every attempt failed with a retryable error
\* throws the error of its last attempt.
ExhaustedThrowsLast ==
    Exhausted =>
        /\ lastLine.attempt = maxRetries
        /\ result.err.name = lastLine.code
        /\ result.err \in Errors

ExhaustedThrowsLastWitness ==
    /\ Exhausted
    /\ maxRetries >= 3
    /\ prevLine.code = "ThrottlingException"
    /\ lastLine.code = "InternalFailure"
    /\ result.err.name = "InternalFailure"

\* C24: what a retrier call throws when its attempts are used up differs
\* from what it throws when the same error is fatal on an attempt: it is
\* tagged as exhausted.
ExhaustedIsTagged ==
    Exhausted => result # ThrowOf(lastError)

\* ------------------------------------------ claims: the AD automation handler
Range(s) == { s[i] : i \in DOMAIN s }

RunningInstances == { k \in DOMAIN instances : instances[k].running }

CreateOrUpdateCompute == cevent.RequestType \in {"Create", "Update"}

\* C11: a Delete invocation whose previous identifier is absent or does not
\* start with "i-" is finished at once, with a return, and has issued no
\* terminate call and no other remote call.
DeleteWithoutInstanceRefIsInert ==
    (cevent.RequestType = "Delete" /\ cevent.PhysicalResourceId \in {None, "deleted"}) =>
        /\ cpc = "done"
        /\ clog = << >>
        /\ cresult.kind = "return"

DeleteWithoutInstanceRefIsInertWitness ==
    /\ cevent.RequestType = "Delete"
    /\ cevent.PhysicalResourceId = "deleted"
    /\ cpc = "done"
    /\ cresult.PhysicalResourceId = "deleted"
    /\ RunningInstances # {}

\* C12: while an instance that a Create invocation returned to its caller
\* still exists, no other instance launched by a Create invocation runs: a
\* second Create does not launch a second instance.
CreateIsIdempotent ==
    \A i, j \in RunningInstances :
        (/\ instances[i].by = "Create"
         /\ instances[j].by = "Create"
         /\ instances[i].fate = "returned") => i = j

\* C13: an invocation that has launched an instance and then ended with an
\* error gives its caller an outcome that carries the identifier of that
\* instance.
FailureAfterLaunchCarriesInstance ==
    \A k \in DOMAIN instances :
        (cpc = "done" /\ k = Len(instances) /\ instances[k].fate = "thrown"
            /\ "runInstances" \in Range(clog)) =>
                InstanceIdOf(k) \in {cresult.PhysicalResourceId, cresult.InstanceId}

\* C14: when a Create invocation has run to completion, also after earlier
\* invocations were killed, no instance whose invocation was killed (so that
\* its identifier was never returned) is running.
NoOrphanAfterKilledCreate ==
    (cpc = "done" /\ cevent.RequestType = "Create" /\ cresult.kind = "return") =>
        \A k \in RunningInstances : instances[k].fate # "killed"

\* C15: between invocations, whatever failed or was killed before, at most
\* one key pair made by the workflow exists, and it is the one the credential
\* record names.
AtMostOneKeyPair ==
    cpc \in {"idle", "done"} =>
        /\ Cardinality(keyPairs) <= 1
        /\ keyPairs # {} => keyPairs = {secretKey}

\* C16: when the image lookup answers with no image, the invocation ends with
\* the error "No Windows AMI found", it has issued no RunInstances request and
\* it has launched no instance.
NoImageNoLaunch ==
    imagesAnswer = "empty" =>
        /\ cpc = "done"
        /\ cresult.kind = "thrown"
        /\ cresult.err = NoAmiError
        /\ "runInstances" \notin Range(clog)
        /\ \A k \in DOMAIN instances : instances[k].fate # "inflight"

NoImageNoLaunchWitness ==
    /\ imagesAnswer = "empty"
    /\ cpc = "done"
    /\ cevent.RequestType = "Create"
    /\ clog[Len(clog)] = "describeImages"
    /\ keyPairs # {}

\* C17: what waitForCommand gives its caller when the poll budget is spent
\* differs from what it gives when the command has Failed.
GaveUpDiffersFromFailed ==
    /\ (joinOutcome.how = "gaveUp" /\ runOutcome.how = "Failed")
          => joinOutcome.value # runOutcome.value
    /\ (joinOutcome.how = "Failed" /\ runOutcome.how = "gaveUp")
          => joinOutcome.value # runOutcome.value

\* the remote calls and fixed delays of a Create or Update, in program order
StepOrder ==
    << "getSecretValue", "describeKeyPairs", "createKeyPair", "putSecretValue",
       "describeImages", "runInstances", "waitUntilInstanceRunning", "settleDelay",
       "describeInstanceInformation", "ssmDelay", "getDocument", "getCustomDocument",
       "createDocument", "sendJoinCommand", "joinWaitStart", "joinInitialDelay",
       "joinWaitEnd", "getAdminPassword", "sendRunCommand", "runWaitStart",
       "runInitialDelay", "runWaitEnd" >>

Rank(e) == CHOOSE i \in DOMAIN StepOrder : StepOrder[i] = e

Before(a, b) ==
    \A j \in DOMAIN clog : clog[j] = b => \E i \in 1 .. j - 1 : clog[i] = a

\* C18: in a Create or Update invocation every remote call and fixed delay
\* happens once, in program order: key material, launch, the wait for the
\* running state and then the settle delay, the join command and its poller,
\* the script command and its poller. The script command is dispatched only
\* after the poller of the join command has returned, and a result is
\* returned only after the poller of the script command has returned.
StepsInFixedOrder ==
    CreateOrUpdateCompute =>
        /\ Range(clog) \subseteq Range(StepOrder)
        /\ \A i, j \in DOMAIN clog : i < j => Rank(clog[i]) < Rank(clog[j])
        /\ Before("describeKeyPairs", "describeImages") \/ Before("putSecretValue", "describeImages")
        /\ Before("describeImages", "runInstances")
        /\ Before("runInstances", "waitUntilInstanceRunning")
        /\ Before("waitUntilInstanceRunning", "settleDelay")
        /\ Before("settleDelay", "sendJoinCommand")
        /\ Before("sendJoinCommand", "joinWaitStart")
        /\ Before("joinWaitStart", "joinWaitEnd")
        /\ Before("joinWaitEnd", "sendRunCommand")
        /\ Before("sendRunCommand", "runWaitStart")
        /\ Before("runWaitStart", "runWaitEnd")
        /\ (cpc = "done" /\ cresult.kind = "return") => clog[Len(clog)] = "runWaitEnd"

StepsInFixedOrderWitness ==
    /\ cevent.RequestType = "Update"
    /\ cpc = "done"
    /\ cresult.kind = "return"
    /\ {"putSecretValue", "ssmDelay", "createDocument", "joinInitialDelay", "runInitialDelay"}
          \subseteq Range(clog)
    /\ joinOutcome.how = "Failed"
    /\ runOutcome.how = "Success"

\* C19: a Delete invocation whose previous identifier names an instance
\* issues one terminate call and nothing else, neither a poll nor a delay nor
\* a step of Create, and it returns the previous identifier when the call
\* succeeds.
DeleteTerminatesOnce ==
    (cevent.RequestType = "Delete" /\ cevent.PhysicalResourceId \notin {None, "deleted"}) =>
        /\ cpc \in {"terminateInstances", "done"}
        /\ polls = 0
        /\ Len(clog) <= 1
        /\ Range(clog) \subseteq {"terminateInstances"}
        /\ (cpc = "done" /\ cresult.kind # "killed") => clog = << "terminateInstances" >>
        /\ (cpc = "done" /\ cresult.kind = "return")
              => /\ cresult.PhysicalResourceId = cevent.PhysicalResourceId
                 /\ ~instances[InstanceNo(cevent.PhysicalResourceId)].running

DeleteTerminatesOnceWitness ==
    /\ cevent.RequestType = "Delete"
    /\ cevent.PhysicalResourceId = InstanceIdOf(1)
    /\ cpc = "done"
    /\ cresult.kind = "return"
    /\ clog = << "terminateInstances" >>
    /\ Len(instances) = 2
    /\ RunningInstances = {2}

\* C20: once a Create invocation has returned after its script command
\* succeeded, the instance it launched is not running any more.
InstanceTerminatedAfterScript ==
    (/\ cpc = "done"
     /\ cevent.RequestType = "Create"
     /\ cresult.kind = "return"
     /\ runOutcome.how = "Success") =>
        InstanceNo(cresult.InstanceId) \notin RunningInstances

\* C25: when the credential record has been read and the key pair it names
\* exists, key-material resolution does not go on to its create step or to
\* its write step: nothing is created and the record is not written.
KeyReusedWhenValid ==
    (cpc \in {"createKeyPair", "putSecretValue"} /\ "describeKeyPairs" \in Range(clog))
        => secretKey \notin keyPairs \ {keyName}

\* C28: the image of the launch request has the latest creation date of the
\* images the lookup answered with.
NewestImageWins ==
    cpc = "runInstances" =>
        \E i \in DOMAIN images :
            /\ images[i].ImageId = amiId
            /\ \A j \in DOMAIN images : images[j].CreationDate <= images[i].CreationDate

NewestImageWinsWitness ==
    /\ cpc = "runInstances"
    /\ Len(images) = MaxImages
    /\ images[1].CreationDate < images[Len(images)].CreationDate
    /\ amiId = images[Len(images)].ImageId

\* C26: when two interleaved Create invocations have both returned, the
\* credential record names a key pair that exists and every instance that
\* was launched uses the key pair the record names.
ConcurrentCreatesShareKey ==
    (/\ cpc = "done" /\ cresult.kind = "return"
     /\ parked.cpc = "done" /\ parked.cresult.kind = "return") =>
        /\ secretKey \in keyPairs
        /\ \A k \in DOMAIN instances : instances[k].key = secretKey

\* C27: when two interleaved invocations have both issued the call that
\* defines the custom join document, neither of them ends with the error
\* that the document exists already.
DocumentRaceTolerated ==
    ("createDocument" \in Range(clog) /\ "createDocument" \in Range(parked.clog)) =>
        /\ ~(cresult.kind = "thrown" /\ cresult.err = DocumentAlreadyExists)
        /\ ~(parked.cresult.kind = "thrown" /\ parked.cresult.err = DocumentAlreadyExists)

\* C29: once the Managed AD stack of a deployment has been deployed, every
\* parameter name the AD automation stack and the QuickSight stack read for
\* the deployment's prefix and stage is a name that stack writes for the stage.
ReadNamesAreWritten ==
    dpc \in {"AdAutomation", "QuickSight", "done"} =>
        (AdAutomationReads(dconfig.projectPrefix, dconfig.stage)
            \cup QuickSightReads(dconfig.projectPrefix, dconfig.stage))
        \subseteq ManagedAdWrites(dconfig.stage)

\* C30: every datapoint is 0 or 1; a datapoint an invocation publishes is 1
\* exactly when its status query answered ACCOUNT_CREATED; an invocation
\* whose status query failed and that has published has published 0 and
\* raises the exception of the query.
HealthDatapoint ==
    /\ \A i \in DOMAIN datapoints : datapoints[i] \in {0, 1}
    /\ \A i \in DOMAIN hpublished : hpublished[i] = 1 <=> hstatus = "ACCOUNT_CREATED"
    /\ (hpc = "done" /\ hstatus = "unread" /\ hpublished # << >>)
          => hpublished = << 0 >> /\ houtcome = [kind |-> "raise", err |-> hcaught]

\* ------------------------------------------------------------------- C31
\* C31: the delay slept after failed attempt k (from 0) is
\* min(baseDelay * 2^k, 30000) ms, plus 5000 ms exactly when the error is the
\* throttling kind; the delays of one retrier call with n attempts sum to at
\* most n * 35000 ms.
DelayFormula ==
    /\ lastLine # NoLine =>
          /\ lastLine.code = "ThrottlingException" =>
                lastLine.delay = Min(baseDelay * 2 ^ (lastLine.attempt - 1), DelayCap) + ThrottlingPenalty
          /\ lastLine.code # "ThrottlingException" =>
                lastLine.delay = Min(baseDelay * 2 ^ (lastLine.attempt - 1), DelayCap)
    /\ totalDelay <= calls * (DelayCap + ThrottlingPenalty)
    /\ (lastLine # NoLine /\ prevLine = NoLine) => totalDelay = lastLine.delay
    /\ (lastLine # NoLine /\ prevLine # NoLine) => totalDelay >= prevLine.delay + lastLine.delay

\* a capped delay with the penalty follows a delay without it
DelayFormulaWitness ==
    /\ pc = "standalone"
    /\ lastLine # NoLine /\ prevLine # NoLine
    /\ lastLine.code = "ThrottlingException"
    /\ lastLine.delay = DelayCap + ThrottlingPenalty
    /\ prevLine.code # "ThrottlingException"
    /\ totalDelay > lastLine.delay + prevLine.delay
    /\ sleeps = calls

\* ------------------------------------------------------------------- C32
\* the outcome, after the step, of the waitForCommand call the handler is in
NewOutcome == IF cpc = "waitForJoinCommand" THEN joinOutcome' ELSE runOutcome'

\* a step of the loop of waitForCommand that made a status query
QueryRound == cpc \in PollPositions /\ << polls, lastPoll >>' # << polls, lastPoll >> /\ cpc' = cpc

\* C32: an error raised by a status query never leaves the poller: no step
\* out of the poller ends the invocation with a thrown error, and a round
\* whose query raised an error leaves the poller running with the loop
\* counter advanced by one, within the budget of 90.
QueryErrorStaysInPoller ==
    /\ [][(cpc \in PollPositions => cresult'.kind # "thrown")]_cvars
    /\ [][((QueryRound /\ lastPoll' = "error") =>
            /\ polls' = polls + 1
            /\ polls' <= PollBudget
            /\ cresult' = NoComputeResult
            /\ NewOutcome = NoOutcome)]_cvars

\* the query of the last round the budget allows raised an error
QueryErrorStaysInPollerWitness ==
    /\ cpc = "waitForRunCommand"
    /\ lastPoll = "error"
    /\ polls = PollBudget
    /\ cresult = NoComputeResult

\* ------------------------------------------------------------------- C33
\* C33: once a query observes Success, Failed or Cancelled the poller
\* returns in that step, issuing no further query and sleeping no more; on
\* any other status it stays in the loop; and every query comes after the
\* initial fixed delay of the call.
TerminalStatusEndsPoller ==
    /\ [](lastPoll \notin {"Success", "Failed", "Cancelled"})
    /\ [](lastPoll # None => cpc \in PollPositions)
    /\ [](cpc \in PollPositions =>
            /\ Len(clog) >= 2
            /\ clog[Len(clog)] = InitialDelay(cpc)
            /\ clog[Len(clog) - 1] = WaitStart(cpc))
    /\ [][((cpc \in PollPositions /\ NewOutcome.how \in {"Success", "Failed", "Cancelled"}) =>
            /\ cpc' # cpc
            /\ clog' = Append(clog, WaitEnd(cpc))
            /\ lastPoll' = None
            /\ polls' = 0)]_cvars
    /\ [][((QueryRound /\ lastPoll' = "InProgress") =>
            /\ polls' = polls + 1
            /\ clog' = clog
            /\ NewOutcome = NoOutcome)]_cvars

\* the join command was observed Failed after rounds that saw it in
\* progress, and the script command has been seen in progress
TerminalStatusEndsPollerWitness ==
    /\ cpc = "waitForRunCommand"
    /\ joinOutcome.how = "Failed"
    /\ lastPoll = "InProgress"
    /\ polls = 2

\* ------------------------------------------------------------------- C34
\* C34: the poller ends whatever the remote side answers: every round that
\* stays in the loop advances the counter, a query is made only while the
\* counter is below 90, and at 90 the only step left is the return.
PollerIsBounded ==
    /\ [](polls <= PollBudget)
    /\ [][(QueryRound => (polls < PollBudget /\ polls' = polls + 1))]_cvars
    /\ [][((cpc \in PollPositions /\ NewOutcome.how \in CommandStatuses) => polls < PollBudget)]_cvars
    /\ [][((cpc \in PollPositions /\ polls = PollBudget) =>
            (NewOutcome.how = "gaveUp" \/ cresult'.kind = "killed"))]_cvars

\* both polls ran out of budget and the handler returned
PollerIsBoundedWitness ==
    /\ cpc = "done"
    /\ cresult.kind = "return"
    /\ joinOutcome.how = "gaveUp"
    /\ runOutcome.how = "gaveUp"

\* ------------------------------------------------------------------- C35
\* C35: the join command is dispatched with the built-in document exactly
\* when the built-in lookup succeeded, and then the custom document is
\* neither looked up nor defined; otherwise it is dispatched with the custom
\* document; the define call comes only after both lookups; and the
\* dispatch comes after the lookups and the define call.
JoinDocumentResolved ==
    LET r == Range(clog)
        dispatching == cpc = "sendJoinCommand" \/ "sendJoinCommand" \in r
    IN  /\ dispatching => "getDocument" \in r
        /\ (dispatching /\ cpc # "done") =>
              /\ useDoc \in {BuiltinDoc, CustomDoc}
              /\ useDoc = BuiltinDoc <=> "getCustomDocument" \notin r
              /\ useDoc = BuiltinDoc => "createDocument" \notin r
        /\ "createDocument" \in r => "getCustomDocument" \in r
        /\ Before("getDocument", "getCustomDocument")
        /\ Before("getCustomDocument", "createDocument")
        /\ Before("getDocument", "sendJoinCommand")
        /\ \A i, j \in DOMAIN clog :
              (clog[i] \in {"getDocument", "getCustomDocument", "createDocument"}
                 /\ clog[j] = "sendJoinCommand") => i < j

\* the join command has been dispatched with the custom document, which
\* this invocation defined after both lookups failed
JoinDocumentResolvedWitness ==
    /\ cpc = "waitForJoinCommand"
    /\ useDoc = CustomDoc
    /\ "createDocument" \in Range(clog)
    /\ "sendJoinCommand" \in Range(clog)

\* ------------------------------------------------------------------- C36
\* how often entry e is in the log of the invocation
Times(e) == Cardinality({ i \in DOMAIN clog : clog[i] = e })

\* C36: visibility is checked once; when the instance is not visible one
\* fixed delay follows the check and the workflow goes on to the document
\* lookup without a second check; when it is visible the lookup follows the
\* check at once; and after the delay the invocation has not failed.
InvisibleInstanceDelaysOnce ==
    /\ Times("describeInstanceInformation") <= 1
    /\ Times("ssmDelay") <= 1
    /\ \A i \in DOMAIN clog :
          /\ clog[i] = "ssmDelay" =>
                /\ i > 1 /\ clog[i - 1] = "describeInstanceInformation"
                /\ i < Len(clog) => clog[i + 1] = "getDocument"
                /\ i = Len(clog) => (cpc = "getDocument" \/ cresult.kind = "killed")
          /\ clog[i] = "describeInstanceInformation" =>
                /\ i < Len(clog) => clog[i + 1] \in {"ssmDelay", "getDocument"}
                /\ i = Len(clog) => (cpc = "getDocument" \/ cresult.kind \in {"thrown", "killed"})

\* the instance was not visible and the join command has been dispatched
InvisibleInstanceDelaysOnceWitness ==
    /\ "ssmDelay" \in Range(clog)
    /\ "sendJoinCommand" \in Range(clog)
    /\ cpc = "waitForJoinCommand"

\* ------------------------------------------------------------------- C37
\* C37: a Delete invocation that issued the terminate call and was not
\* stopped returns the previous identifier, whether the terminate call
\* answered or raised an error.
DeleteIsBestEffort ==
    (/\ cevent.RequestType = "Delete"
     /\ cpc = "done"
     /\ "terminateInstances" \in Range(clog)
     /\ cresult.kind # "killed") =>
        /\ cresult.kind = "return"
        /\ cresult.PhysicalResourceId = cevent.PhysicalResourceId

RECURSIVE SumOfDelays(_)
SumOfDelays(log) == IF log = << >> THEN 0 ELSE DelayOf(Head(log)) + SumOfDelays(Tail(log))

\* milliseconds the invocation has spent in its fixed delays and in the
\* sleeps of its polling rounds, at least
WaitedAtLeast ==
    SumOfDelays(clog) + RoundsOf(joinOutcome) + RoundsOf(runOutcome) + polls * PollInterval

\* C40: the waits of a Create invocation that stays within its own wait
\* budgets never add up to more than the timeout of the function, so the
\* invocation is not stopped by the timeout.
WaitsFitTheTimeout ==
    (cevent.RequestType = "Create" /\ cresult.kind # "killed") =>
        WaitedAtLeast <= FunctionTimeout

====
